---- MODULE Spec2Model ----
(***************************************************************************)
(* Model of python/redis-benchmark/benchmark.py: a coordinator (main) that *)
(* probes the store, starts one thread per worker, joins them, aggregates  *)
(* their results and prints a summary; and the workers (run_worker), each  *)
(* pinging the store and then running SET+GET round trips.                 *)
(*                                                                         *)
(* The store (redis-py client + server) is the environment: every call     *)
(* returns or raises, chosen nondeterministically.  redis-py's exception   *)
(* classes are modelled by two kinds: "ConnectionError" (the class the     *)
(* code names at lines 15 and 68) and "RedisError" (an instance of the     *)
(* base class that is not a ConnectionError, e.g. TimeoutError,            *)
(* ResponseError, InvalidResponse).  ConnectionError is a subclass of      *)
(* RedisError.                                                             *)
(***************************************************************************)
EXTENDS Integers, Sequences, FiniteSets, TLC

\* Bounds of the model.
MaxWorkers == 2
MaxOps == 2
MaxTotalOps == 4
MaxDuration == 2

WorkerIds == 0..(MaxWorkers - 1)

\* os.urandom(4).hex(): two of the 2^32 possible suffixes.
RandHex == {"00000000", "ffffffff"}

\* (op_end_time - op_start_time) * 1000, as read from time.perf_counter():
\* two of the possible values.
LatencyValues == {1, 2}

\* overall_end_time - overall_start_time, in seconds; time.perf_counter() is
\* monotonic, so the difference is never negative.
DurationValues == 0..MaxDuration

\* Python's None (r.get of an absent key; also an unbound local).
None == <<>>

\* Exceptions a store call may raise.
StoreErrors == {"ConnectionError", "RedisError"}

\* isinstance(e, redis.exceptions.ConnectionError)
IsConnectionError(e) == e = "ConnectionError"

\* isinstance(e, redis.exceptions.RedisError)
IsRedisError(e) == e \in {"ConnectionError", "RedisError"}

\* A key that leaves the worker id out.
KeyWithoutWorker(worker_id, i) == <<"worker-", 0, "-op-", i>>

\* key = f"worker-{worker_id}-op-{i}"
Key(worker_id, i) == <<"worker-", worker_id, "-op-", i>>

\* value = f"value-{i}-{os.urandom(4).hex()}"
Value(i, rand) == <<"value-", i, "-", rand>>

AllKeys == {Key(w, i) : w \in WorkerIds, i \in 0..MaxOps}

VARIABLES
    workers,            \* args.workers (N)
    operations,         \* args.operations (M)
    mainPc,             \* position of main()
    probe,              \* outcome of r_test.ping(): "none" before the call
    spawned,            \* threads started so far (loop index of line 78)
    joined,             \* threads joined so far (loop index of line 85)
    worker_results,     \* the shared list
    total_successful_ops,
    all_latencies_ms,
    summaryPrinted,     \* the "--- Benchmark Results ---" block was printed
    exitCode,           \* -1 while running, then the exit status 0 or 1
    uncaught,           \* the exception that left main(): "none" if none
    total_duration_seconds,
    ops_per_second,     \* a fraction <<numerator, denominator>>
    avg_latency_ms,     \* a fraction <<numerator, denominator>>
    min_latency_ms,
    max_latency_ms,
    minMaxPrinted,      \* the "Min latency" and "Max latency" lines were printed
    wpc,                \* position of each run_worker thread
    pinged,             \* outcome of each worker's r.ping(): "none" before
    i,                  \* each worker's loop index
    value,              \* each worker's local `value`
    retrieved_value,    \* each worker's local `retrieved_value`
    successful_ops,     \* each worker's local counter
    latencies,          \* each worker's local list
    calls,              \* store calls each worker has issued, in order
    store,              \* the store's contents: key -> value or None
    storeFault          \* some store call raised or returned a wrong value

statVars == <<total_duration_seconds, ops_per_second, avg_latency_ms,
              min_latency_ms, max_latency_ms, minMaxPrinted>>
mainVars == <<mainPc, probe, spawned, joined, total_successful_ops,
              all_latencies_ms, summaryPrinted, exitCode, uncaught, statVars>>
workerVars == <<wpc, pinged, i, value, retrieved_value, successful_ops,
                latencies, calls>>
vars == <<workers, operations, mainVars, worker_results, workerVars, store,
          storeFault>>

(***************************************************************************)
(* Pieces of the code that the actions below use.                          *)
(***************************************************************************)

\* main, line 68: except redis.exceptions.ConnectionError
ProbeCaught(e) == IsConnectionError(e)

\* run_worker, line 15: except redis.exceptions.ConnectionError
PingCaught(e) == IsConnectionError(e)

\* run_worker, line 36: except redis.exceptions.RedisError
OpCaught(e) == IsRedisError(e)

\* A loop that runs one index too far.
LoopContinuesInclusive(idx, ops) == idx <= ops

\* run_worker, line 20: for i in range(operations)
LoopContinues(idx, ops) == idx < ops

\* A handler that retries the same index.
AfterErrorRetry(idx) == idx

\* run_worker, lines 36-38: `pass`, then the for loop takes the next index
AfterError(idx) == idx + 1

\* A check that accepts any value read back.
ReadBackNotNone(retrieved, written) == retrieved # None

\* run_worker, line 31: if retrieved_value == value
ReadBackMatches(retrieved, written) == retrieved = written

\* run_worker, line 32: successful_ops += 1 (inside the if of line 31)
CountOp(ops, retrieved, written) ==
    IF ReadBackMatches(retrieved, written) THEN ops + 1 ELSE ops

\* A latency sample recorded outside the if of line 31.
RecordLatencyAlways(lats, retrieved, written, ms) == Append(lats, ms)

\* run_worker, line 33: latencies.append(...) (inside the if of line 31)
RecordLatency(lats, retrieved, written, ms) ==
    IF ReadBackMatches(retrieved, written) THEN Append(lats, ms) ELSE lats

\* run_worker, lines 17 and 40: the dict appended to results_list
WorkerResult(id, ops, lats) == [id |-> id, ops |-> ops, latencies |-> lats]

\* run_worker, line 17: the result of a worker that could not connect
EmptyResult(id) == WorkerResult(id, 0, <<>>)

\* A thread has finished: it returned, or died of an uncaught exception.
Terminated == {"report_empty", "report", "crashed"}

\* A join that does not wait.
ThreadJoinedNoWait(pc) == TRUE

\* main, line 86: thread.join() returns once the thread has finished
ThreadJoined(pc) == pc \in Terminated

\* main, lines 91-95: total_successful_ops += res['ops']
RECURSIVE SumOps(_)
SumOps(results) ==
    IF results = <<>> THEN 0
    ELSE Head(results).ops + SumOps(Tail(results))

\* An aggregation that assigns each result's latencies instead of extending.
AssignLatencies(results) ==
    IF results = <<>> THEN <<>> ELSE results[Len(results)].latencies

\* main, lines 92-96: all_latencies_ms.extend(res['latencies'])
RECURSIVE ExtendLatencies(_)
ExtendLatencies(results) ==
    IF results = <<>> THEN <<>>
    ELSE Head(results).latencies \o ExtendLatencies(Tail(results))

\* Greatest common divisor, to keep fractions in lowest terms.
RECURSIVE Gcd(_, _)
Gcd(a, b) == IF b = 0 THEN a ELSE Gcd(b, a % b)

\* The number n / d (n >= 0, d > 0) in lowest terms.
Fraction(n, d) == <<n \div Gcd(n, d), d \div Gcd(n, d)>>

\* main, lines 98, 102: the number 0
Zero == <<0, 1>>

\* A guard that lets a zero duration through.
DurationNonNegative(d) == d >= 0

\* main, line 99: if total_duration_seconds > 0
DurationPositive(d) == d > 0

\* main, line 100: total_successful_ops / total_duration_seconds
Divide(n, d) == Fraction(n, d)

\* main, line 108: if all_latencies_ms
HasSamples(lats) == lats # <<>>

\* Min and max lines printed whatever the list holds.
PrintsMinMaxAlways(lats) == TRUE

\* main, line 125: if all_latencies_ms
PrintsMinMax(lats) == lats # <<>>

RECURSIVE SumSeq(_)
SumSeq(xs) == IF xs = <<>> THEN 0 ELSE Head(xs) + SumSeq(Tail(xs))

\* main, line 109: statistics.mean(all_latencies_ms)
Mean(xs) == Fraction(SumSeq(xs), Len(xs))

\* main, line 110: min(all_latencies_ms)
Min(xs) == CHOOSE x \in {xs[k] : k \in 1..Len(xs)} :
              \A k \in 1..Len(xs) : x <= xs[k]

\* main, line 111: max(all_latencies_ms)
Max(xs) == CHOOSE x \in {xs[k] : k \in 1..Len(xs)} :
              \A k \in 1..Len(xs) : x >= xs[k]

\* One issued store call, as recorded in `calls`.
Call(op, key, idx) == [op |-> op, key |-> key, i |-> idx]

\* What a misbehaving store may answer to GET key instead of store[key].
WrongAnswers(key, idx) ==
    {v \in {None} \cup {Value(idx, r) : r \in RandHex} : v # store[key]}

(***************************************************************************)
(* Initial state: configuration parsed (workers >= 1, operations >= 0),    *)
(* nothing started.                                                        *)
(***************************************************************************)
Init ==
    /\ workers \in 1..MaxWorkers
    /\ operations \in 0..MaxOps
    /\ workers * operations <= MaxTotalOps
    /\ mainPc = "probe"
    /\ probe = "none"
    /\ spawned = 0
    /\ joined = 0
    /\ worker_results = <<>>
    /\ total_successful_ops = 0
    /\ all_latencies_ms = <<>>
    /\ summaryPrinted = FALSE
    /\ exitCode = -1
    /\ uncaught = "none"
    /\ total_duration_seconds = 0
    /\ ops_per_second = Zero
    /\ avg_latency_ms = Zero
    /\ min_latency_ms = 0
    /\ max_latency_ms = 0
    /\ minMaxPrinted = FALSE
    /\ wpc = [w \in WorkerIds |-> "init"]
    /\ pinged = [w \in WorkerIds |-> "none"]
    /\ i = [w \in WorkerIds |-> 0]
    /\ value = [w \in WorkerIds |-> None]
    /\ retrieved_value = [w \in WorkerIds |-> None]
    /\ successful_ops = [w \in WorkerIds |-> 0]
    /\ latencies = [w \in WorkerIds |-> <<>>]
    /\ calls = [w \in WorkerIds |-> <<>>]
    /\ store = [k \in AllKeys |-> None]
    /\ storeFault = FALSE

(***************************************************************************)
(* main()                                                                  *)
(***************************************************************************)

\* Lines 64-71: the probe connection.  A ConnectionError is caught and the
\* run goes on; any other exception leaves main() and the interpreter exits
\* with status 1 before any thread is started.
MainProbe ==
    /\ mainPc = "probe"
    /\ \E outcome \in {"ok"} \cup StoreErrors :
        /\ probe' = outcome
        /\ storeFault' = (storeFault \/ outcome # "ok")
        /\ IF outcome = "ok" \/ ProbeCaught(outcome)
           THEN /\ mainPc' = "spawn"
                /\ exitCode' = exitCode
                /\ uncaught' = uncaught
           ELSE /\ mainPc' = "crashed"
                /\ exitCode' = 1
                /\ uncaught' = outcome
    /\ UNCHANGED <<statVars, workers, operations, spawned, joined, worker_results,
                   total_successful_ops, all_latencies_ms, summaryPrinted,
                   workerVars, store>>

\* Lines 78-83: start the next thread.
MainSpawn ==
    /\ mainPc = "spawn"
    /\ spawned < workers
    /\ wpc' = [wpc EXCEPT ![spawned] = "ping"]
    /\ spawned' = spawned + 1
    /\ UNCHANGED <<statVars, uncaught, workers, operations, mainPc, probe, joined, worker_results,
                   total_successful_ops, all_latencies_ms, summaryPrinted,
                   exitCode, pinged, i, value, retrieved_value,
                   successful_ops, latencies, calls, store, storeFault>>

\* Line 78: the spawn loop is exhausted.
MainSpawnDone ==
    /\ mainPc = "spawn"
    /\ ~(spawned < workers)
    /\ mainPc' = "join"
    /\ UNCHANGED <<statVars, uncaught, workers, operations, probe, spawned, joined,
                   worker_results, total_successful_ops, all_latencies_ms,
                   summaryPrinted, exitCode, workerVars, store, storeFault>>

\* Lines 85-86: join the next thread, in start order.
MainJoin ==
    /\ mainPc = "join"
    /\ joined < workers
    /\ ThreadJoined(wpc[joined])
    /\ joined' = joined + 1
    /\ UNCHANGED <<statVars, uncaught, workers, operations, mainPc, probe, spawned,
                   worker_results, total_successful_ops, all_latencies_ms,
                   summaryPrinted, exitCode, workerVars, store, storeFault>>

\* Line 85: the join loop is exhausted.
MainJoinDone ==
    /\ mainPc = "join"
    /\ ~(joined < workers)
    /\ mainPc' = "aggregate"
    /\ UNCHANGED <<statVars, uncaught, workers, operations, probe, spawned,
                   joined, worker_results, total_successful_ops,
                   all_latencies_ms, summaryPrinted, exitCode, workerVars,
                   store, storeFault>>

\* Lines 88-111: take the end timestamp, read the shared list, compute
\* ops/sec and the latency statistics.  A division by zero would leave
\* main() as an uncaught ZeroDivisionError.
MainAggregate ==
    /\ mainPc = "aggregate"
    /\ \E d \in DurationValues :
        /\ total_duration_seconds' = d
        /\ total_successful_ops' = SumOps(worker_results)
        /\ all_latencies_ms' = ExtendLatencies(worker_results)
        /\ IF DurationPositive(d) /\ d = 0
           THEN /\ mainPc' = "crashed"
                /\ exitCode' = 1
                /\ uncaught' = "ZeroDivisionError"
                /\ UNCHANGED <<ops_per_second, avg_latency_ms,
                               min_latency_ms, max_latency_ms>>
           ELSE /\ mainPc' = "print"
                /\ exitCode' = exitCode
                /\ uncaught' = uncaught
                /\ ops_per_second' =
                      IF DurationPositive(d)
                      THEN Divide(SumOps(worker_results), d)
                      ELSE Zero
                /\ IF HasSamples(ExtendLatencies(worker_results))
                   THEN /\ avg_latency_ms' =
                              Mean(ExtendLatencies(worker_results))
                        /\ min_latency_ms' =
                              Min(ExtendLatencies(worker_results))
                        /\ max_latency_ms' =
                              Max(ExtendLatencies(worker_results))
                   ELSE /\ avg_latency_ms' = Zero
                        /\ min_latency_ms' = 0
                        /\ max_latency_ms' = 0
    /\ UNCHANGED <<minMaxPrinted, workers, operations, probe, spawned,
                   joined, worker_results, summaryPrinted, workerVars, store,
                   storeFault>>

\* Lines 119-131: print the summary, with the min and max lines if there
\* are samples; main() returns and the process exits 0.
MainPrint ==
    /\ mainPc = "print"
    /\ summaryPrinted' = TRUE
    /\ minMaxPrinted' = PrintsMinMax(all_latencies_ms)
    /\ exitCode' = 0
    /\ mainPc' = "exited"
    /\ UNCHANGED <<total_duration_seconds, ops_per_second, avg_latency_ms,
                   min_latency_ms, max_latency_ms, uncaught, workers,
                   operations, probe, spawned, joined, worker_results,
                   total_successful_ops, all_latencies_ms, workerVars, store,
                   storeFault>>

(* run_worker(worker_id, ...)                                              *)
(***************************************************************************)

\* Lines 12-15: connect and ping.  Success leads to the loop; a
\* ConnectionError to the handler of line 15; any other exception is not
\* caught and ends the thread.
WorkerPing(w) ==
    /\ wpc[w] = "ping"
    /\ \E outcome \in {"ok"} \cup StoreErrors :
        /\ pinged' = [pinged EXCEPT ![w] = outcome]
        /\ storeFault' = (storeFault \/ outcome # "ok")
        /\ wpc' = [wpc EXCEPT ![w] =
                      IF outcome = "ok" THEN "loop"
                      ELSE IF PingCaught(outcome) THEN "failed"
                      ELSE "crashed"]
    /\ calls' = [calls EXCEPT ![w] = Append(@, Call("PING", None, -1))]
    /\ UNCHANGED <<workers, operations, mainVars, worker_results, i, value,
                   retrieved_value, successful_ops, latencies, store>>

\* Lines 16-18: report an empty result and return.
WorkerReportEmpty(w) ==
    /\ wpc[w] = "failed"
    /\ worker_results' = Append(worker_results, EmptyResult(w))
    /\ wpc' = [wpc EXCEPT ![w] = "report_empty"]
    /\ UNCHANGED <<workers, operations, mainVars, pinged, i, value,
                   retrieved_value, successful_ops, latencies, calls, store,
                   storeFault>>

\* A worker that guards only the GET: an error of SET is dropped and the
\* GET of the same iteration is issued all the same.
WorkerSetThenGetAnyway(w) ==
    /\ wpc[w] = "loop"
    /\ LoopContinues(i[w], operations)
    /\ \E rand \in RandHex, outcome \in {"ok"} \cup StoreErrors :
        /\ value' = [value EXCEPT ![w] = Value(i[w], rand)]
        /\ calls' = [calls EXCEPT ![w] =
                        Append(@, Call("SET", Key(w, i[w]), i[w]))]
        /\ storeFault' = (storeFault \/ outcome # "ok")
        /\ store' = IF outcome = "ok"
                    THEN [store EXCEPT ![Key(w, i[w])] = Value(i[w], rand)]
                    ELSE store
        /\ wpc' = [wpc EXCEPT ![w] = "get"]
    /\ UNCHANGED <<workers, operations, mainVars, worker_results, pinged, i,
                   retrieved_value, successful_ops, latencies>>

\* Lines 20-27: take the next index, build key and value, issue SET.
WorkerSet(w) ==
    /\ wpc[w] = "loop"
    /\ LoopContinues(i[w], operations)
    /\ \E rand \in RandHex, outcome \in {"ok"} \cup StoreErrors :
        /\ value' = [value EXCEPT ![w] = Value(i[w], rand)]
        /\ calls' = [calls EXCEPT ![w] =
                        Append(@, Call("SET", Key(w, i[w]), i[w]))]
        /\ storeFault' = (storeFault \/ outcome # "ok")
        /\ IF outcome = "ok"
           THEN /\ store' = [store EXCEPT ![Key(w, i[w])] = Value(i[w], rand)]
                /\ wpc' = [wpc EXCEPT ![w] = "get"]
           ELSE /\ store' = store
                /\ wpc' = [wpc EXCEPT ![w] =
                              IF OpCaught(outcome) THEN "except"
                              ELSE "crashed"]
    /\ UNCHANGED <<workers, operations, mainVars, worker_results, pinged, i,
                   retrieved_value, successful_ops, latencies>>

\* Line 28: issue GET of the same key.
WorkerGet(w) ==
    /\ wpc[w] = "get"
    /\ calls' = [calls EXCEPT ![w] =
                    Append(@, Call("GET", Key(w, i[w]), i[w]))]
    /\ \/ /\ retrieved_value' =
                [retrieved_value EXCEPT ![w] = store[Key(w, i[w])]]
          /\ wpc' = [wpc EXCEPT ![w] = "check"]
          /\ storeFault' = storeFault
       \/ \E wrong \in WrongAnswers(Key(w, i[w]), i[w]) :
          /\ retrieved_value' = [retrieved_value EXCEPT ![w] = wrong]
          /\ wpc' = [wpc EXCEPT ![w] = "check"]
          /\ storeFault' = TRUE
       \/ \E outcome \in StoreErrors :
          /\ retrieved_value' = retrieved_value
          /\ wpc' = [wpc EXCEPT ![w] =
                        IF OpCaught(outcome) THEN "except" ELSE "crashed"]
          /\ storeFault' = TRUE
    /\ UNCHANGED <<workers, operations, mainVars, worker_results, pinged, i,
                   value, successful_ops, latencies, store>>

\* Lines 29-33: take the end timestamp, compare, count.
WorkerCheck(w) ==
    /\ wpc[w] = "check"
    /\ \E ms \in LatencyValues :
        /\ successful_ops' = [successful_ops EXCEPT ![w] =
              CountOp(@, retrieved_value[w], value[w])]
        /\ latencies' = [latencies EXCEPT ![w] =
              RecordLatency(@, retrieved_value[w], value[w], ms)]
    /\ i' = [i EXCEPT ![w] = @ + 1]
    /\ wpc' = [wpc EXCEPT ![w] = "loop"]
    /\ UNCHANGED <<workers, operations, mainVars, worker_results, pinged,
                   value, retrieved_value, calls, store, storeFault>>

\* Lines 36-38: the handler swallows the error.
WorkerExcept(w) ==
    /\ wpc[w] = "except"
    /\ i' = [i EXCEPT ![w] = AfterError(@)]
    /\ wpc' = [wpc EXCEPT ![w] = "loop"]
    /\ UNCHANGED <<workers, operations, mainVars, worker_results, pinged,
                   value, retrieved_value, successful_ops, latencies, calls,
                   store, storeFault>>

\* Line 40: the loop is exhausted; append the result and return.
WorkerReport(w) ==
    /\ wpc[w] = "loop"
    /\ ~LoopContinues(i[w], operations)
    /\ worker_results' = Append(worker_results,
                                WorkerResult(w, successful_ops[w], latencies[w]))
    /\ wpc' = [wpc EXCEPT ![w] = "report"]
    /\ UNCHANGED <<workers, operations, mainVars, pinged, i, value,
                   retrieved_value, successful_ops, latencies, calls, store,
                   storeFault>>

Next ==
    \/ MainProbe
    \/ MainSpawn
    \/ MainSpawnDone
    \/ MainJoin
    \/ MainJoinDone
    \/ MainAggregate
    \/ MainPrint
    \/ \E w \in WorkerIds : WorkerPing(w)
    \/ \E w \in WorkerIds : WorkerReportEmpty(w)
    \/ \E w \in WorkerIds : WorkerSet(w)
    \/ \E w \in WorkerIds : WorkerGet(w)
    \/ \E w \in WorkerIds : WorkerCheck(w)
    \/ \E w \in WorkerIds : WorkerExcept(w)
    \/ \E w \in WorkerIds : WorkerReport(w)

Spec == Init /\ [][Next]_vars

\* The steps of main() and of one worker thread.
MainNext ==
    \/ MainProbe
    \/ MainSpawn
    \/ MainSpawnDone
    \/ MainJoin
    \/ MainJoinDone
    \/ MainAggregate
    \/ MainPrint

WorkerNext(w) ==
    \/ WorkerPing(w)
    \/ WorkerReportEmpty(w)
    \/ WorkerSet(w)
    \/ WorkerGet(w)
    \/ WorkerCheck(w)
    \/ WorkerExcept(w)
    \/ WorkerReport(w)

\* Every store call returns or raises, and the scheduler lets every thread
\* that can take a step take one eventually.
FairSpec ==
    /\ Spec
    /\ WF_vars(MainNext)
    /\ \A w \in WorkerIds : WF_vars(WorkerNext(w))

(***************************************************************************)
(* Helpers of the properties.                                              *)
(***************************************************************************)

Started == 0..(workers - 1)

\* main() is past the join barrier.
PostJoin == {"aggregate", "print", "exited"}

\* Number of entries of the shared list that carry id w.
Appended(w) ==
    Cardinality({k \in 1..Len(worker_results) : worker_results[k].id = w})

ResultIds == {worker_results[k].id : k \in 1..Len(worker_results)}

IsSet(c) == c.op = "SET"
IsGet(c) == c.op = "GET"
IsPing(c) == c.op = "PING"

\* The SET calls worker w has issued, in order.
SetCalls(w) == SelectSeq(calls[w], IsSet)
GetCalls(w) == SelectSeq(calls[w], IsGet)
PingCalls(w) == SelectSeq(calls[w], IsPing)

\* A step taken while main() is past the join barrier leaves the shared
\* list, the issued store calls and the store as they are.
QuietAfterJoin ==
    mainPc \in PostJoin =>
        /\ worker_results' = worker_results
        /\ calls' = calls
        /\ store' = store

(***************************************************************************)
(* C1: every worker appends its result to the shared list exactly once,    *)
(* whatever the store calls do; so when main() is past the join barrier    *)
(* the list holds exactly `workers` results with ids 0..workers-1, each    *)
(* once.                                                                   *)
(***************************************************************************)
C1_EveryWorkerAppendsOnce ==
    /\ \A w \in WorkerIds : Appended(w) <= 1
    /\ \A w \in Started : wpc[w] \in Terminated => Appended(w) = 1
    /\ mainPc \in PostJoin =>
          /\ Len(worker_results) = workers
          /\ ResultIds = Started

(***************************************************************************)
(* C2: main() reads the shared list only when every one of the `workers`   *)
(* threads has finished; once it is past the join barrier no worker        *)
(* appends to the list or issues a store call.                             *)
(***************************************************************************)
C2_AggregateOnlyAfterAllTerminated ==
    /\ [](mainPc \in PostJoin => \A w \in Started : wpc[w] \in Terminated)
    /\ [][QuietAfterJoin]_vars

C2_Witness ==
    /\ mainPc = "aggregate"
    /\ workers = 2
    /\ wpc[0] = "report"
    /\ wpc[1] = "report_empty"
    /\ Len(worker_results) = 2

(***************************************************************************)
(* C3: if no store call raised or returned a wrong value, the total that   *)
(* main() reports is workers * operations.                                 *)
(***************************************************************************)
C3_TotalIsNTimesMWhenStoreCorrect ==
    (mainPc \in {"print", "exited"} /\ ~storeFault) =>
        total_successful_ops = workers * operations

C3_Witness ==
    /\ mainPc = "exited"
    /\ ~storeFault
    /\ workers = 2
    /\ operations = 2
    /\ total_successful_ops = 4

(***************************************************************************)
(* C4: whatever the store does, each worker's count is at most             *)
(* `operations` and the total main() computes is at most                   *)
(* workers * operations.                                                   *)
(***************************************************************************)
C4_TotalAtMostNTimesM ==
    /\ \A w \in WorkerIds : successful_ops[w] <= operations
    /\ \A k \in 1..Len(worker_results) : worker_results[k].ops <= operations
    /\ mainPc \in {"print", "exited"} =>
          total_successful_ops <= workers * operations

C4_Witness ==
    /\ mainPc = "exited"
    /\ storeFault
    /\ workers = 2
    /\ operations = 2
    /\ total_successful_ops = 3

(***************************************************************************)
(* C5: the number of latency samples equals the number of successful       *)
(* operations: in every worker, in every appended result, and in the       *)
(* aggregate.                                                              *)
(***************************************************************************)
C5_LatencyCountEqualsOps ==
    /\ \A w \in WorkerIds : Len(latencies[w]) = successful_ops[w]
    /\ \A k \in 1..Len(worker_results) :
          Len(worker_results[k].latencies) = worker_results[k].ops
    /\ mainPc \in {"print", "exited"} =>
          Len(all_latencies_ms) = total_successful_ops

C5_Witness ==
    /\ mainPc = "print"
    /\ workers = 2
    /\ storeFault
    /\ total_successful_ops = 2
    /\ Len(all_latencies_ms) = 2
    /\ \E k \in 1..Len(worker_results) : worker_results[k].ops = 2

(***************************************************************************)
(* C6: an iteration is counted (count + 1, one latency sample appended)    *)
(* exactly when SET and GET both returned and the value read back equals   *)
(* the value written; a mismatch or a store error adds neither, and the    *)
(* step that decides it changes nothing else.                              *)
(***************************************************************************)
C6_CountedIffReadBackEqual ==
    [][\A w \in WorkerIds :
        /\ (wpc[w] = "check" /\ wpc'[w] # "check") =>
              /\ Len(SetCalls(w)) = i[w] + 1
              /\ Len(GetCalls(w)) >= 1
              /\ calls[w][Len(calls[w])] = Call("GET", Key(w, i[w]), i[w])
              /\ IF retrieved_value[w] = value[w]
                 THEN /\ successful_ops'[w] = successful_ops[w] + 1
                      /\ Len(latencies'[w]) = Len(latencies[w]) + 1
                      /\ SubSeq(latencies'[w], 1, Len(latencies[w]))
                            = latencies[w]
                 ELSE /\ successful_ops'[w] = successful_ops[w]
                      /\ latencies'[w] = latencies[w]
              /\ worker_results' = worker_results
              /\ store' = store
              /\ calls' = calls
              /\ \A o \in WorkerIds \ {w} :
                    /\ successful_ops'[o] = successful_ops[o]
                    /\ latencies'[o] = latencies[o]
        /\ (wpc[w] # "check") =>
              /\ successful_ops'[w] = successful_ops[w]
              /\ latencies'[w] = latencies[w]
        /\ (wpc[w] = "except" /\ wpc'[w] # "except") =>
              /\ worker_results' = worker_results
              /\ store' = store
              /\ calls' = calls
              /\ wpc'[w] = "loop"
      ]_vars

\* A mismatching read-back of iteration 0 was discarded.
C6_Witness ==
    \E w \in WorkerIds :
        /\ wpc[w] = "loop"
        /\ i[w] = 1
        /\ Len(GetCalls(w)) = 1
        /\ retrieved_value[w] # value[w]
        /\ successful_ops[w] = 0
        /\ latencies[w] = <<>>

(***************************************************************************)
(* C7: a worker whose ping failed, with any error, issues no further       *)
(* store call, appends {ops: 0, latencies: []} and terminates; main() is   *)
(* not blocked by it.                                                      *)
(***************************************************************************)
C7_PingFailureReportsEmpty ==
    \A w \in WorkerIds :
        pinged[w] \in StoreErrors =>
            /\ calls[w] = <<Call("PING", None, -1)>>
            /\ wpc[w] \in {"failed"} \cup Terminated
            /\ wpc[w] \in Terminated =>
                  \E k \in 1..Len(worker_results) :
                      worker_results[k] = EmptyResult(w)

(***************************************************************************)
(* C8: a store error in iteration i is swallowed: a worker whose ping      *)
(* succeeded never aborts and issues SET for the indices 0, 1, 2, ... each *)
(* exactly once and in increasing order, up to operations - 1 when it      *)
(* reports.                                                                *)
(***************************************************************************)
C8_EachIndexAttemptedOnceInOrder ==
    \A w \in WorkerIds :
        pinged[w] = "ok" =>
            /\ wpc[w] # "crashed"
            /\ \A k \in 1..Len(SetCalls(w)) : SetCalls(w)[k].i = k - 1
            /\ Len(SetCalls(w)) =
                  IF wpc[w] \in {"get", "check", "except"}
                  THEN i[w] + 1 ELSE i[w]
            /\ wpc[w] = "report" => Len(SetCalls(w)) = operations

\* Iteration 0 raised at SET, iteration 1 raised at GET, and the worker
\* reported after both.
C8_Witness ==
    \E w \in WorkerIds :
        /\ wpc[w] = "report"
        /\ operations = 2
        /\ Len(SetCalls(w)) = 2
        /\ Len(GetCalls(w)) = 1
        /\ GetCalls(w)[1].i = 1
        /\ successful_ops[w] = 0

(***************************************************************************)
(* C9: the process always exits 0 and always prints the results summary,   *)
(* whatever error the probe, a worker's connection or a store call raises. *)
(***************************************************************************)
C9_AlwaysExitsZero ==
    /\ exitCode \in {-1, 0}
    /\ mainPc \in {"exited", "crashed"} => summaryPrinted

(***************************************************************************)
(* C10: when the probe fails the run proceeds: main() still starts all     *)
(* `workers` threads and reaches the summary.                              *)
(***************************************************************************)
C10_ProbeFailureProceeds ==
    probe \in StoreErrors =>
        /\ mainPc \in {"spawn", "join", "aggregate", "print", "exited"}
        /\ mainPc # "spawn" => spawned = workers

(***************************************************************************)
(* C11: the reported ops/sec is 0 whenever the duration is <= 0 or the     *)
(* total is 0; otherwise it is total / duration; and main() never divides  *)
(* by zero.                                                                *)
(***************************************************************************)
C11_OpsPerSecond ==
    /\ uncaught # "ZeroDivisionError"
    /\ mainPc \in {"print", "exited"} =>
          /\ ops_per_second[2] > 0
          /\ IF total_duration_seconds <= 0 \/ total_successful_ops = 0
             THEN ops_per_second[1] = 0
             ELSE ops_per_second[1] * total_duration_seconds
                     = total_successful_ops * ops_per_second[2]

\* Operations succeeded, yet the measured duration is 0.
C11_Witness ==
    /\ mainPc = "exited"
    /\ total_duration_seconds = 0
    /\ total_successful_ops = 3
    /\ ops_per_second[1] = 0

(***************************************************************************)
(* C12: the min and max latency lines are printed exactly when there is at *)
(* least one latency sample, that is when the total is > 0; with           *)
(* workers = 1 and operations = 0 the total is 0 and the lines are not     *)
(* printed; the average of an empty sequence is reported as 0.             *)
(***************************************************************************)
C12_MinMaxPrintedIffSamples ==
    /\ mainPc # "exited" => ~minMaxPrinted
    /\ mainPc = "exited" =>
          /\ minMaxPrinted <=> Len(all_latencies_ms) >= 1
          /\ minMaxPrinted <=> total_successful_ops > 0
          /\ all_latencies_ms = <<>> => avg_latency_ms[1] = 0
          /\ (workers = 1 /\ operations = 0) =>
                (total_successful_ops = 0 /\ ~minMaxPrinted)

C12_Witness ==
    /\ mainPc = "exited"
    /\ workers = 1
    /\ operations = 0
    /\ summaryPrinted
    /\ ~minMaxPrinted

(***************************************************************************)
(* C13: each worker follows CONNECTING -> (FAILED -> REPORT_EMPTY) |       *)
(* (READY -> RUNNING over i -> REPORT): every step of a worker is an edge  *)
(* of that machine, it ends in REPORT_EMPTY or REPORT only, nothing leaves *)
(* a terminal state, it never returns to CONNECTING and its loop index     *)
(* never decreases.                                                        *)
(***************************************************************************)
Running == {"loop", "get", "check", "except"}

MachineStates ==
    {"init", "ping", "failed", "report_empty", "report"} \cup Running

MachineEdges ==
    {<<"init", "ping">>, <<"ping", "failed">>, <<"failed", "report_empty">>,
     <<"ping", "loop">>, <<"loop", "get">>, <<"loop", "except">>,
     <<"get", "check">>, <<"get", "except">>, <<"check", "loop">>,
     <<"except", "loop">>, <<"loop", "report">>}

WorkerLocals(w) ==
    <<wpc[w], pinged[w], i[w], value[w], retrieved_value[w],
      successful_ops[w], latencies[w], calls[w]>>

MachineStep ==
    \A w \in WorkerIds :
        /\ wpc'[w] \in MachineStates
        /\ wpc'[w] # wpc[w] => <<wpc[w], wpc'[w]>> \in MachineEdges
        /\ wpc[w] \in {"report_empty", "report"} =>
              WorkerLocals(w)' = WorkerLocals(w)
        /\ i'[w] >= i[w]
        /\ (wpc[w] \in {"check", "except"} /\ wpc'[w] = "loop") =>
              i'[w] = i[w] + 1

C13_WorkerStateMachine == [][MachineStep]_vars

(***************************************************************************)
(* C14: keys are unique per (worker id, index); a step changes only store  *)
(* entries whose key belongs to the worker that took it, every store call  *)
(* of a worker names one of its own keys, which is no other worker's key,  *)
(* and a step changes the local state of at most one worker.               *)
(***************************************************************************)
OwnKeys == [w \in WorkerIds |-> {Key(w, idx) : idx \in 0..MaxOps}]

KeysInjective ==
    /\ \A w \in WorkerIds : Cardinality(OwnKeys[w]) = MaxOps + 1
    /\ \A w1, w2 \in WorkerIds :
          w1 # w2 => OwnKeys[w1] \cap OwnKeys[w2] = {}

ForeignKeys == [w \in WorkerIds |-> UNION {OwnKeys[o] : o \in WorkerIds \ {w}}]

CallsOwnKeys ==
    \A w \in WorkerIds : \A p \in 1..Len(calls[w]) :
        calls[w][p].op # "PING" =>
            /\ calls[w][p].key \in OwnKeys[w]
            /\ calls[w][p].key \notin ForeignKeys[w]

\* The workers whose local state the step changes.
Movers == {w \in WorkerIds : WorkerLocals(w)' # WorkerLocals(w)}

StoreFrame ==
    /\ Cardinality(Movers) <= 1
    /\ store' # store =>
          \A k \in AllKeys :
              store'[k] # store[k] =>
                  \E w \in Movers :
                      /\ calls'[w] # calls[w]
                      /\ k \in OwnKeys[w]
                      /\ k \notin ForeignKeys[w]

C14_KeysPerWorker ==
    /\ [](KeysInjective /\ CallsOwnKeys)
    /\ [][StoreFrame]_vars

\* Both workers have written their key of index 0, with different values.
C14_Witness ==
    /\ store[Key(0, 0)] # None
    /\ store[Key(1, 0)] # None
    /\ store[Key(0, 0)] # store[Key(1, 0)]
    /\ wpc[0] = "check"
    /\ wpc[1] = "check"

(***************************************************************************)
(* C15: the aggregate does not depend on the order of the appends: the     *)
(* total is the sum of the workers' counts, the aggregated latencies are   *)
(* the same multiset as the workers' latencies together, and min, max and  *)
(* mean are those of that multiset.                                        *)
(***************************************************************************)
Occurrences(xs, v) == Cardinality({k \in 1..Len(xs) : xs[k] = v})

\* Sum of the counts of workers 0..n-1, in id order.
RECURSIVE OpsUpTo(_)
OpsUpTo(n) == IF n = 0 THEN 0 ELSE successful_ops[n - 1] + OpsUpTo(n - 1)

\* Number of samples equal to v of workers 0..n-1, in id order.
RECURSIVE SamplesUpTo(_, _)
SamplesUpTo(n, v) ==
    IF n = 0 THEN 0
    ELSE Occurrences(latencies[n - 1], v) + SamplesUpTo(n - 1, v)

\* Sum of the samples of workers 0..n-1, in id order.
RECURSIVE LatencySumUpTo(_)
LatencySumUpTo(n) ==
    IF n = 0 THEN 0 ELSE SumSeq(latencies[n - 1]) + LatencySumUpTo(n - 1)

SampleValues == {v \in LatencyValues : SamplesUpTo(workers, v) > 0}

C15_AggregateOrderIndependent ==
    mainPc \in {"print", "exited"} =>
        /\ total_successful_ops = OpsUpTo(workers)
        /\ \A v \in LatencyValues :
              Occurrences(all_latencies_ms, v) = SamplesUpTo(workers, v)
        /\ SampleValues # {} =>
              /\ min_latency_ms \in SampleValues
              /\ max_latency_ms \in SampleValues
              /\ \A v \in SampleValues :
                    min_latency_ms <= v /\ v <= max_latency_ms
              /\ avg_latency_ms[2] > 0
              /\ avg_latency_ms[1] * Len(all_latencies_ms)
                    = LatencySumUpTo(workers) * avg_latency_ms[2]

\* Worker 1 appended before worker 0, with different samples.
C15_Witness ==
    /\ mainPc = "exited"
    /\ workers = 2
    /\ Len(worker_results) = 2
    /\ worker_results[1].id = 1
    /\ worker_results[2].id = 0
    /\ worker_results[1].latencies = <<2>>
    /\ worker_results[2].latencies = <<1, 1>>
    /\ all_latencies_ms = <<2, 1, 1>>

(***************************************************************************)
(* C16: within one iteration the SET is issued before the GET of the same  *)
(* key, at most one SET and one GET are issued per iteration, and if the   *)
(* SET raised (the key was not written) no GET of that iteration is issued *)
(* and the worker moves on to the next iteration.                          *)
(***************************************************************************)
GetFollowsItsSet(w) ==
    \A p \in 1..Len(calls[w]) :
        calls[w][p].op = "GET" =>
            /\ p > 1
            /\ calls[w][p - 1] = Call("SET", calls[w][p].key, calls[w][p].i)

OncePerIteration(w) ==
    \A p, q \in 1..Len(calls[w]) :
        (p < q /\ calls[w][p].op = calls[w][q].op) =>
            calls[w][p].i < calls[w][q].i

\* The store never deletes, so an issued SET whose key is unwritten raised.
NoGetAfterFailedSet(w) ==
    \A p \in 1..Len(calls[w]) :
        (calls[w][p].op = "SET" /\ store[calls[w][p].key] = None) =>
            /\ \A q \in 1..Len(calls[w]) :
                  ~(calls[w][q].op = "GET" /\ calls[w][q].i = calls[w][p].i)
            /\ wpc[w] = "except" \/ i[w] > calls[w][p].i

C16_SetThenGetOncePerIteration ==
    \A w \in WorkerIds :
        /\ GetFollowsItsSet(w)
        /\ OncePerIteration(w)
        /\ NoGetAfterFailedSet(w)

\* SET of iteration 0 raised; iteration 1 issued SET and then GET.
C16_Witness ==
    \E w \in WorkerIds :
        /\ Len(calls[w]) = 4
        /\ calls[w][2] = Call("SET", Key(w, 0), 0)
        /\ calls[w][3] = Call("SET", Key(w, 1), 1)
        /\ calls[w][4] = Call("GET", Key(w, 1), 1)
        /\ store[Key(w, 0)] = None

(***************************************************************************)
(* C17: if every store call returns, with a value or an error, then under  *)
(* fair scheduling every worker eventually terminates and main()           *)
(* eventually passes the join barrier, aggregates and prints the summary.  *)
(***************************************************************************)
C17_EventuallySummary ==
    <>(/\ summaryPrinted
       /\ mainPc = "exited"
       /\ \A w \in Started : wpc[w] \in Terminated)

====
